---------------------------- MODULE Spec2Model ----------------------------
(***************************************************************************)
(* State-machine model of lib/common.js of hubot-route53: the callOn       *)
(* operations (currentZone, zoneWhere, zoneNamed, hostZone,                *)
(* resourceRecord, zoneRecords, updateRecord) run on one context object    *)
(* against a Route53 provider, the authorization gate of APICall, and the  *)
(* record matchers on their own.                                           *)
(*                                                                         *)
(* A JavaScript string is a sequence of one-character strings, so that     *)
(* _.endsWith and += '.' are computed, not assumed.  The value undefined   *)
(* is the empty sequence for a name, the string "undefined" for a type,    *)
(* and a record of such fields for a zone or a record set.                 *)
(***************************************************************************)
EXTENDS Integers, Sequences, FiniteSets, TLC

\* ------------------------------------------------------------------ bounds

\* Record sets that may share the key (b.e., A), told apart by SetIdentifier.
MaxDup == 2

\* Largest page the provider returns when the request carries no MaxItems.
MaxPage == 2

\* The record-callback log and the request counters saturate here.
MaxLog == 6

\* --------------------------------------------------------- names and types

UndefName == << >>

UndefType == "undefined"

N_e == <<"e", ".">>

N_e_nodot == <<"e">>

N_se == <<"s", ".", "e", ".">>

N_ae == <<"a", ".", "e", ".">>

N_ae_nodot == <<"a", ".", "e">>

N_be == <<"b", ".", "e", ".">>

N_fse == <<"f", ".", "s", ".", "e", ".">>

\* patterns.valid_types
valid_types == {"SOA", "AAAA", "A", "TXT", "NS", "CNAME", "MX", "PTR", "SRV", "SPF"}

\* String.prototype.toUpperCase on the type strings the model uses.
toUpperCase(t) ==
    CASE t = "a" -> "A"
      [] t = "cname" -> "CNAME"
      [] OTHER -> t

\* _.endsWith(s, t)
endsWith(s, t) ==
    /\ Len(t) <= Len(s)
    /\ SubSeq(s, Len(s) - Len(t) + 1, Len(s)) = t

\* Mutant: the dot is appended whether or not the name ends with one.
NormalizeAlways(n) == n \o <<".">>

\* if (! _.endsWith(n, '.')) n += '.'
Normalize(n) == IF endsWith(n, <<".">>) THEN n ELSE n \o <<".">>

\* Mutant: the name of the returned record is not compared.
recordNameMatchAny(n1, n2) == TRUE

recordNameMatch(n1, n2) == Normalize(n1) = Normalize(n2)

\* an undefined type match any type
recordTypeMatch(t1, t2) == t1 = UndefType \/ t2 = UndefType \/ t1 = t2

\* Mutant: a next cursor only counts when its type equals the query's type.
nextRecordMatchStrict(r1, r2) ==
    IF r2.Name = UndefName \/ r2.Type = UndefType
    THEN FALSE
    ELSE recordNameMatch(r1.Name, r2.Name) /\ r1.Type = r2.Type

nextRecordMatch(r1, r2) ==
    IF r2.Name = UndefName \/ r2.Type = UndefType
    THEN FALSE
    ELSE IF ~ recordNameMatch(r1.Name, r2.Name)
         THEN FALSE
         ELSE recordTypeMatch(r1.Type, r2.Type)

\* new RegExp('^' + patterns.valid_types + '$', 'i').test(t); the value
\* undefined is tested as the string "undefined", which is no valid type.
TypeTest(t) == toUpperCase(t) \in valid_types

\* ---------------------------------------------------------------- provider

NoZone == [Id |-> "undefined", Name |-> UndefName]

ZoneE == [Id |-> "Z1", Name |-> N_e]

ZoneSE == [Id |-> "Z2", Name |-> N_se]

ZoneIds == {"Z1", "Z2"}

\* What listHostedZones may return: the provider's order is the sequence's.
ZoneListings == { <<ZoneSE, ZoneE>>, <<ZoneE, ZoneSE>>, <<ZoneE>>, <<ZoneSE>>, << >> }

NoRecord == [Name |-> UndefName, Type |-> UndefType, SetIdentifier |-> 0]

RR(n, t, i) == [Name |-> n, Type |-> t, SetIdentifier |-> i]

\* The record sets zone e. may hold; zone s.e. holds (f.s.e., A).
RecordsE ==
    {RR(N_ae, "A", 1), RR(N_ae, "CNAME", 1)} \cup {RR(N_be, "A", i) : i \in 1..MaxDup}

RecordsSE == {RR(N_fse, "A", 1)}

ZoneUniverse(id) == IF id = "Z1" THEN RecordsE ELSE RecordsSE

\* Route53 lists names by their labels reversed: e. < a.e. < b.e. < s.e. < f.s.e.
NameRank(n) ==
    CASE n = N_e -> 0
      [] n = N_ae -> 1
      [] n = N_be -> 2
      [] n = N_se -> 3
      [] n = N_fse -> 4
      [] OTHER -> 5

TypeRank(t) ==
    CASE t = "A" -> 1
      [] t = "CNAME" -> 2
      [] OTHER -> 0

\* Provider order of the record sets: by name, then type, then SetIdentifier.
RecLess(r, s) ==
    \/ NameRank(r.Name) < NameRank(s.Name)
    \/ /\ r.Name = s.Name
       /\ \/ TypeRank(r.Type) < TypeRank(s.Type)
          \/ r.Type = s.Type /\ r.SetIdentifier < s.SetIdentifier

\* The record sets of S as the provider lists them.
RECURSIVE Listed(_)
Listed(S) ==
    IF S = {} THEN << >>
    ELSE LET first == CHOOSE r \in S : \A s \in S \ {r} : RecLess(r, s)
         IN  <<first>> \o Listed(S \ {first})

\* listResourceRecordSets: the first listed record set at or after
\* (StartRecordName, StartRecordType); a missing trailing '.' and the letter
\* case of the type make no difference to the provider.
AtOrAfter(r, name, type) ==
    \/ name = UndefName
    \/ NameRank(r.Name) > NameRank(Normalize(name))
    \/ /\ r.Name = Normalize(name)
       /\ type = UndefType \/ TypeRank(r.Type) >= TypeRank(toUpperCase(type))

Seek(rs, name, type) ==
    LET hits == {i \in 1..Len(rs) : AtOrAfter(rs[i], name, type)}
    IN  IF hits = {} THEN Len(rs) + 1
        ELSE CHOOSE i \in hits : \A j \in hits : i <= j

Min(a, b) == IF a <= b THEN a ELSE b

\* One page: up to size record sets, and when more follow, IsTruncated with
\* the name and type of the record set that follows (its SetIdentifier goes in
\* NextRecordIdentifier, which common.js never reads).
ListPage(rs, name, type, size) ==
    LET i == Seek(rs, name, type)
        last == Min(i + size - 1, Len(rs))
        more == last < Len(rs)
    IN  [ err |-> FALSE,
          HostedZones |-> << >>,
          ResourceRecordSets |-> SubSeq(rs, i, last),
          IsTruncated |-> more,
          NextRecordName |-> IF more THEN rs[last + 1].Name ELSE UndefName,
          NextRecordType |-> IF more THEN rs[last + 1].Type ELSE UndefType ]

\* A response that carries an error.
ErrData ==
    [ err |-> TRUE, HostedZones |-> << >>, ResourceRecordSets |-> << >>,
      IsTruncated |-> FALSE, NextRecordName |-> UndefName, NextRecordType |-> UndefType ]

\* A response with no zones and no record sets.
NoData ==
    [ err |-> FALSE, HostedZones |-> << >>, ResourceRecordSets |-> << >>,
      IsTruncated |-> FALSE, NextRecordName |-> UndefName, NextRecordType |-> UndefType ]

\* ------------------------------------------------------------------- state

VARIABLES
    hostedZones,  \* the provider's zones, in listing order
    rrsets,       \* the provider's record sets, by zone Id
    pageSize,     \* the provider's page size for a request without MaxItems
    ctxZone,      \* ctx.zone
    op,           \* the callOn operation in progress and its arguments
    pc,           \* "idle", "waiting" (a request is outstanding), "answered"
                  \* (its response has arrived, the callback is due), "done",
                  \* "aborted" (the operation ended with a request no provider
                  \* will answer)
    req,          \* the outstanding provider request
    calls,        \* the continuations the operation has invoked, in order
    reqs,         \* how many times the operation has called each provider operation
    data,         \* the last response of the provider
    log,          \* the records handed to zoneRecords' record callback, in order
    denied        \* the call object's provider operations were replaced by no-ops

vars ==
    <<hostedZones, rrsets, pageSize, ctxZone, op, pc, req, calls, reqs, data, log, denied>>

NoOp ==
    [ name |-> "none", predKind |-> "none", predName |-> UndefName,
      Name |-> UndefName, Type |-> UndefType, zone |-> NoZone,
      errback |-> FALSE, filter |-> "none", old |-> NoRecord, new |-> NoRecord,
      comment |-> "undefined", zone0 |-> NoZone ]

NoReq ==
    [ api |-> "none", HostedZoneId |-> "undefined", MaxItems |-> 0,
      StartRecordName |-> UndefName, StartRecordType |-> UndefType,
      Changes |-> << >>, Comment |-> "undefined" ]

NoReqs == [listHostedZones |-> 0, listResourceRecordSets |-> 0, changeResourceRecordSets |-> 0]

Inc(r, api) == [r EXCEPT ![api] = Min(@ + 1, MaxLog)]

Call(k, z, r, m) == [k |-> k, zone |-> z, rec |-> r, msg |-> m]

\* The arguments the caller may pass.
ZoneNames == {N_e, N_e_nodot, N_se}

HostNames == {N_ae, N_ae_nodot, N_be, N_fse, N_e, N_se}

QueryTypes == {UndefType, "A", "CNAME", "a", "BOGUS"}

Filters == {"none", "typeA"}

\* The record sets the caller may ask updateRecord to create.
NewRecords == {RR(N_ae, "CNAME", 1), RR(N_be, "A", 1), RR(N_fse, "A", 1)}

\* process.env.NODE_ENV != 'development' && options.need !== undefined
\*   && !robot.auth.hasRole(user, options.need)
Gate(development, need, hasRole) == ~ development /\ need /\ ~ hasRole

\* Mutant: the provider operations of the call object are never replaced.
DisabledNever == FALSE

\* _.each(route53.api.operations, function(m, k) { this[k] = new Function(); })
Disabled == denied

Init ==
    /\ denied \in {Gate(d, n, h) : d \in BOOLEAN, n \in BOOLEAN, h \in BOOLEAN}
    /\ hostedZones \in ZoneListings
    /\ rrsets \in {[id \in ZoneIds |-> IF id = "Z1" THEN S ELSE RecordsSE] : S \in SUBSET RecordsE}
    /\ pageSize \in 1..MaxPage
    /\ ctxZone = NoZone
    /\ op = NoOp
    /\ pc = "idle"
    /\ req = NoReq
    /\ calls = << >>
    /\ reqs = NoReqs
    /\ data = NoData
    /\ log = << >>

\* ----------------------------------------------------------- zone resolver

\* zoneNamed's predicate: zone.Name == zoneName, zoneName with its '.' appended
zoneNamedPredicate(zoneName, zone) == zone.Name = Normalize(zoneName)

\* Mutant: the host is compared with the zone's name alone, without the '.'
\* before it.
hostZonePredicateNoDot(host, zone) == endsWith(Normalize(host), zone.Name)

\* hostZone's predicate: _.endsWith(host, '.' + zone.Name), host with its '.'
hostZonePredicate(host, zone) == endsWith(Normalize(host), <<".">> \o zone.Name)

\* The predicate operation o passes to zoneWhere.
predicate(o, zone) ==
    IF o.predKind = "named"
    THEN zoneNamedPredicate(o.predName, zone)
    ELSE hostZonePredicate(o.predName, zone)

\* Mutant: the last zone that satisfies the predicate, not the first.
findLast(zs, o) ==
    LET hits == {i \in 1..Len(zs) : predicate(o, zs[i])}
    IN  IF hits = {} THEN NoZone
        ELSE zs[CHOOSE i \in hits : \A j \in hits : i >= j]

\* _.find(r.data.HostedZones, predicate), undefined when none satisfies it
find(zs, o) ==
    LET hits == {i \in 1..Len(zs) : predicate(o, zs[i])}
    IN  IF hits = {} THEN NoZone
        ELSE zs[CHOOSE i \in hits : \A j \in hits : i <= j]

\* errback || ctx.defaultErrorHandler
ErrK(o) == IF o.errback THEN "errback" ELSE "defaultErrorHandler"

\* zoneWhere's errback: resourceRecord calls hostZone with a callback only.
ZoneErrK(o) == IF o.name = "resourceRecord" THEN "defaultErrorHandler" ELSE ErrK(o)

\* rr_type: the supplied type when the pattern accepts it, else undefined
rr_type(o) == IF TypeTest(o.Type) THEN o.Type ELSE UndefType

\* Mutant: a type the pattern rejects is taken as no type at all.
BadTypeIgnored(t) == FALSE

\* else if (rr_data.Type != undefined) return errback(...)
BadType(t) == ~ TypeTest(t) /\ t /= UndefType

\* The callback zoneWhere invokes with zone z, c and r being the calls made
\* and the requests issued so far: the caller's callback, or for
\* resourceRecord the function that requests one record set.
ZoneCallback(o, z, c, r) ==
    IF o.name = "resourceRecord"
    THEN /\ req' = IF Disabled THEN NoReq
                   ELSE [NoReq EXCEPT !.api = "listResourceRecordSets",
                                      !.HostedZoneId = z.Id,
                                      !.MaxItems = 1,
                                      !.StartRecordName = o.Name,
                                      !.StartRecordType = rr_type(o)]
         /\ reqs' = Inc(r, "listResourceRecordSets")
         /\ calls' = c
         /\ pc' = IF Disabled THEN "aborted" ELSE "waiting"
    ELSE /\ req' = NoReq
         /\ reqs' = r
         /\ calls' = Append(c, Call("callback", z, NoRecord, ""))
         /\ pc' = "done"

\* Mutant: the zone in the context is never reused.
CacheHitNever(o) == FALSE

\* Mutant: any zone already in the context is reused.
CacheHitUnchecked(o) == ctxZone /= NoZone

\* ctx.zone !== undefined && predicate(ctx.zone)
CacheHit(o) == ctxZone /= NoZone /\ predicate(o, ctxZone)

\* zoneWhere, entered by operation o
ZoneWhere(o) ==
    /\ op' = o
    /\ data' = NoData
    /\ log' = << >>
    /\ UNCHANGED <<denied, hostedZones, rrsets, pageSize, ctxZone>>
    /\ IF CacheHit(o)
       THEN ZoneCallback(o, ctxZone, << >>, NoReqs)
       ELSE /\ reqs' = Inc(NoReqs, "listHostedZones")
            /\ IF Disabled
               THEN \* the no-op returns undefined, and undefined.on(...) throws
                    /\ req' = NoReq
                    /\ calls' = <<Call("throw", NoZone, NoRecord, "TypeError")>>
                    /\ pc' = "aborted"
               ELSE /\ req' = [NoReq EXCEPT !.api = "listHostedZones"]
                    /\ calls' = << >>
                    /\ pc' = "waiting"

currentZone ==
    /\ pc = "idle"
    /\ op' = [NoOp EXCEPT !.name = "currentZone", !.zone0 = ctxZone]
    /\ calls' = IF ctxZone = NoZone
                THEN <<Call("throw", NoZone, NoRecord, "Not zone found in this context")>>
                ELSE <<Call("callback", ctxZone, NoRecord, "")>>
    /\ pc' = "done"
    /\ req' = NoReq
    /\ reqs' = NoReqs
    /\ data' = NoData
    /\ log' = << >>
    /\ UNCHANGED <<denied, hostedZones, rrsets, pageSize, ctxZone>>

zoneNamed ==
    /\ pc = "idle"
    /\ \E zoneName \in ZoneNames, eb \in BOOLEAN :
          ZoneWhere([NoOp EXCEPT !.name = "zoneNamed", !.predKind = "named",
                                 !.predName = zoneName, !.errback = eb,
                                 !.zone0 = ctxZone])

hostZone ==
    /\ pc = "idle"
    /\ \E host \in HostNames, eb \in BOOLEAN :
          ZoneWhere([NoOp EXCEPT !.name = "hostZone", !.predKind = "host",
                                 !.predName = host, !.errback = eb,
                                 !.zone0 = ctxZone])

\* Mutant: a zone found by the lookup is stored only in a context that holds
\* none.
StoreIfNone(zone, target) == IF zone = NoZone THEN target ELSE zone

\* ctx.zone = target
Store(zone, target) == target

\* listHostedZones().on('success', ...)
listHostedZonesSuccess ==
    /\ pc = "answered"
    /\ req.api = "listHostedZones"
    /\ ~ data.err
    /\ LET target == find(data.HostedZones, op)
       IN  IF target = NoZone
           THEN /\ calls' = Append(calls, Call(ZoneErrK(op), NoZone, NoRecord, "Zone not found"))
                /\ pc' = "done"
                /\ req' = NoReq
                /\ UNCHANGED <<ctxZone, reqs>>
           ELSE /\ ctxZone' = Store(ctxZone, target)
                /\ ZoneCallback(op, target, calls, reqs)
    /\ UNCHANGED <<denied, hostedZones, rrsets, pageSize, op, data, log>>

\* Mutant: a failed listing clears the zone of the context.
listHostedZonesErrorClears ==
    /\ pc = "answered"
    /\ req.api = "listHostedZones"
    /\ data.err
    /\ calls' = Append(calls, Call(ZoneErrK(op), NoZone, NoRecord, "r"))
    /\ pc' = "done"
    /\ req' = NoReq
    /\ ctxZone' = NoZone
    /\ UNCHANGED <<denied, hostedZones, rrsets, pageSize, op, reqs, data, log>>

\* listHostedZones().on('error', ...): errback gets the response object r
listHostedZonesError ==
    /\ pc = "answered"
    /\ req.api = "listHostedZones"
    /\ data.err
    /\ calls' = Append(calls, Call(ZoneErrK(op), NoZone, NoRecord, "r"))
    /\ pc' = "done"
    /\ req' = NoReq
    /\ UNCHANGED <<denied, hostedZones, rrsets, pageSize, ctxZone, op, reqs, data, log>>

\* --------------------------------------------------- record point-resolver

resourceRecord ==
    /\ pc = "idle"
    /\ \E rr_name \in HostNames, type \in QueryTypes, eb \in BOOLEAN :
          LET o == [NoOp EXCEPT !.name = "resourceRecord", !.predKind = "host",
                                !.predName = rr_name, !.Name = rr_name,
                                !.Type = type, !.errback = eb, !.zone0 = ctxZone]
          IN  IF BadType(type)
              THEN /\ op' = o
                   /\ calls' = <<Call(ErrK(o), NoZone, NoRecord, "Bad record type supplied")>>
                   /\ pc' = "done"
                   /\ req' = NoReq
                   /\ reqs' = NoReqs
                   /\ data' = NoData
                   /\ log' = << >>
                   /\ UNCHANGED <<denied, hostedZones, rrsets, pageSize, ctxZone>>
              ELSE ZoneWhere(o)

\* Mutant: the type is compared before the name.
resourceRecordResultTypeFirst(o, d) ==
    LET result == IF Len(d.ResourceRecordSets) > 0 THEN d.ResourceRecordSets[1] ELSE NoRecord
    IN  IF result /= NoRecord /\ ~ recordTypeMatch(rr_type(o), result.Type)
        THEN Call(ErrK(o), NoZone, NoRecord, "No such record name with specified type")
        ELSE IF result /= NoRecord /\ recordNameMatch(o.Name, result.Name)
             THEN IF nextRecordMatch([Name |-> o.Name, Type |-> rr_type(o)],
                                     [Name |-> d.NextRecordName, Type |-> d.NextRecordType])
                  THEN Call(ErrK(o), NoZone, NoRecord, "Aambiguous records selection")
                  ELSE Call("callback", NoZone, result, "")
             ELSE Call(ErrK(o), NoZone, NoRecord, "No such record with given name")

\* What the callback of the one-item request does with the response d.
resourceRecordResult(o, d) ==
    LET result == IF Len(d.ResourceRecordSets) > 0 THEN d.ResourceRecordSets[1] ELSE NoRecord
    IN  IF result /= NoRecord /\ recordNameMatch(o.Name, result.Name)
        THEN IF recordTypeMatch(rr_type(o), result.Type)
             THEN IF nextRecordMatch([Name |-> o.Name, Type |-> rr_type(o)],
                                     [Name |-> d.NextRecordName, Type |-> d.NextRecordType])
                  THEN Call(ErrK(o), NoZone, NoRecord, "Aambiguous records selection")
                  ELSE Call("callback", NoZone, result, "")
             ELSE Call(ErrK(o), NoZone, NoRecord, "No such record name with specified type")
        ELSE Call(ErrK(o), NoZone, NoRecord, "No such record with given name")

\* The page the provider answers the outstanding request with.
Answer ==
    ListPage(Listed(rrsets[req.HostedZoneId]), req.StartRecordName, req.StartRecordType,
             IF req.MaxItems = 0 THEN pageSize ELSE req.MaxItems)

resourceRecordResponse ==
    /\ pc = "answered"
    /\ req.api = "listResourceRecordSets"
    /\ op.name = "resourceRecord"
    /\ ~ data.err
    /\ calls' = Append(calls, resourceRecordResult(op, data))
    /\ pc' = "done"
    /\ req' = NoReq
    /\ UNCHANGED <<denied, hostedZones, rrsets, pageSize, ctxZone, op, reqs, data, log>>

\* if (err) return errback.call(ctx, err.message)
resourceRecordError ==
    /\ pc = "answered"
    /\ req.api = "listResourceRecordSets"
    /\ op.name = "resourceRecord"
    /\ data.err
    /\ calls' = Append(calls, Call(ErrK(op), NoZone, NoRecord, "err.message"))
    /\ pc' = "done"
    /\ req' = NoReq
    /\ UNCHANGED <<denied, hostedZones, rrsets, pageSize, ctxZone, op, reqs, data, log>>

\* ---------------------------------------------------- record set paginator

\* ! _options.predicate || _options.predicate(record)
Passes(f, record) == f = "none" \/ record.Type = "A"

Selected(f, rs) == LET Test(r) == Passes(f, r) IN SelectSeq(rs, Test)

\* callback.call(ctx, record) for each selected record of a page
Deliver(l, rs) == LET all == l \o rs IN SubSeq(all, 1, Min(Len(all), MaxLog))

zoneRecords ==
    /\ pc = "idle"
    /\ \E zone \in {ZoneE, ZoneSE}, f \in Filters, eb \in BOOLEAN, max \in 0..1 :
          /\ op' = [NoOp EXCEPT !.name = "zoneRecords", !.zone = zone, !.filter = f,
                                !.errback = eb, !.zone0 = ctxZone]
          /\ req' = IF Disabled THEN NoReq
                    ELSE [NoReq EXCEPT !.api = "listResourceRecordSets",
                                       !.HostedZoneId = zone.Id, !.MaxItems = max]
    /\ reqs' = Inc(NoReqs, "listResourceRecordSets")
    /\ calls' = << >>
    /\ pc' = IF Disabled THEN "aborted" ELSE "waiting"
    /\ data' = NoData
    /\ log' = << >>
    /\ UNCHANGED <<denied, hostedZones, rrsets, pageSize, ctxZone>>

\* The request options of the next page: the response's next name and type.
NextRequest(r, d) ==
    [NoReq EXCEPT !.api = "listResourceRecordSets",
                  !.HostedZoneId = r.HostedZoneId,
                  !.StartRecordType = d.NextRecordType,
                  !.StartRecordName = d.NextRecordName]

\* Mutant: a truncated page's next request is sent before the record callbacks
\* of the page are run, and they are not run.
zoneRecordsPageRequestFirst ==
    /\ pc = "answered"
    /\ req.api = "listResourceRecordSets"
    /\ op.name = "zoneRecords"
    /\ ~ data.err
    /\ IF data.IsTruncated
       THEN /\ req' = NextRequest(req, data)
            /\ reqs' = Inc(reqs, "listResourceRecordSets")
            /\ pc' = "waiting"
            /\ UNCHANGED <<calls, log>>
       ELSE /\ log' = Deliver(log, Selected(op.filter, data.ResourceRecordSets))
            /\ calls' = Append(calls, Call("final_callback", NoZone, NoRecord, ""))
            /\ pc' = "done"
            /\ req' = NoReq
            /\ UNCHANGED reqs
    /\ UNCHANGED <<denied, hostedZones, rrsets, pageSize, ctxZone, op, data>>

zoneRecordsPage ==
    /\ pc = "answered"
    /\ req.api = "listResourceRecordSets"
    /\ op.name = "zoneRecords"
    /\ ~ data.err
    /\ log' = Deliver(log, Selected(op.filter, data.ResourceRecordSets))
    /\ IF data.IsTruncated
       THEN /\ req' = NextRequest(req, data)
            /\ reqs' = Inc(reqs, "listResourceRecordSets")
            /\ pc' = "waiting"
            /\ UNCHANGED calls
       ELSE /\ calls' = Append(calls, Call("final_callback", NoZone, NoRecord, ""))
            /\ pc' = "done"
            /\ req' = NoReq
            /\ UNCHANGED reqs
    /\ UNCHANGED <<denied, hostedZones, rrsets, pageSize, ctxZone, op, data>>

\* Mutant: the error branch does not return, and the enumeration goes on to
\* its completion callback.
zoneRecordsErrorThenFinal ==
    /\ pc = "answered"
    /\ req.api = "listResourceRecordSets"
    /\ op.name = "zoneRecords"
    /\ data.err
    /\ calls' = calls \o <<Call(ErrK(op), NoZone, NoRecord, "err.message"),
                           Call("final_callback", NoZone, NoRecord, "")>>
    /\ pc' = "done"
    /\ req' = NoReq
    /\ UNCHANGED <<denied, hostedZones, rrsets, pageSize, ctxZone, op, reqs, data, log>>

zoneRecordsError ==
    /\ pc = "answered"
    /\ req.api = "listResourceRecordSets"
    /\ op.name = "zoneRecords"
    /\ data.err
    /\ calls' = Append(calls, Call(ErrK(op), NoZone, NoRecord, "err.message"))
    /\ pc' = "done"
    /\ req' = NoReq
    /\ UNCHANGED <<denied, hostedZones, rrsets, pageSize, ctxZone, op, reqs, data, log>>

\* ----------------------------------------------------------- record updater

\* Mutant: the batch creates the new record set before it deletes the old.
ChangesCreateFirst(old, new) ==
    << [Action |-> "CREATE", ResourceRecordSet |-> new],
       [Action |-> "DELETE", ResourceRecordSet |-> old] >>

\* ChangeBatch.Changes
Changes(old, new) ==
    << [Action |-> "DELETE", ResourceRecordSet |-> old],
       [Action |-> "CREATE", ResourceRecordSet |-> new] >>

updateRecord ==
    /\ pc = "idle"
    /\ \E zone \in {ZoneE, ZoneSE}, old \in RecordsE \cup RecordsSE,
          new \in NewRecords, eb \in BOOLEAN, comment \in {"undefined", "c"} :
          /\ op' = [NoOp EXCEPT !.name = "updateRecord", !.zone = zone, !.old = old,
                                !.new = new, !.errback = eb, !.comment = comment,
                                !.zone0 = ctxZone]
          /\ req' = IF Disabled THEN NoReq
                    ELSE [NoReq EXCEPT !.api = "changeResourceRecordSets",
                                       !.HostedZoneId = zone.Id,
                                       !.Changes = Changes(old, new),
                                       !.Comment = comment]
    /\ reqs' = Inc(NoReqs, "changeResourceRecordSets")
    /\ calls' = << >>
    /\ pc' = IF Disabled THEN "aborted" ELSE "waiting"
    /\ data' = NoData
    /\ log' = << >>
    /\ UNCHANGED <<denied, hostedZones, rrsets, pageSize, ctxZone>>

\* The provider applies a batch as one unit: the record set to delete must
\* exist, and the one to create must belong to the zone and not exist already.
Applies(id, changes) ==
    /\ changes[1].ResourceRecordSet \in rrsets[id]
    /\ changes[2].ResourceRecordSet \in ZoneUniverse(id)
    /\ changes[2].ResourceRecordSet \notin rrsets[id] \ {changes[1].ResourceRecordSet}

\* The zone's record sets after the batch.
Applied(have, changes) ==
    (have \ {changes[1].ResourceRecordSet}) \cup {changes[2].ResourceRecordSet}

updateRecordSuccess ==
    /\ pc = "answered"
    /\ req.api = "changeResourceRecordSets"
    /\ ~ data.err
    /\ calls' = Append(calls, Call("callback", NoZone, NoRecord, "data"))
    /\ pc' = "done"
    /\ req' = NoReq
    /\ UNCHANGED <<denied, hostedZones, rrsets, pageSize, ctxZone, op, reqs, data, log>>

\* Mutant: the error branch does not return, and the success callback follows
\* the error handler.
updateRecordErrorThenCallback ==
    /\ pc = "answered"
    /\ req.api = "changeResourceRecordSets"
    /\ data.err
    /\ calls' = calls \o <<Call(ErrK(op), NoZone, NoRecord, "err.message"),
                           Call("callback", NoZone, NoRecord, "data")>>
    /\ pc' = "done"
    /\ req' = NoReq
    /\ UNCHANGED <<denied, hostedZones, rrsets, pageSize, ctxZone, op, reqs, data, log>>

updateRecordError ==
    /\ pc = "answered"
    /\ req.api = "changeResourceRecordSets"
    /\ data.err
    /\ calls' = Append(calls, Call(ErrK(op), NoZone, NoRecord, "err.message"))
    /\ pc' = "done"
    /\ req' = NoReq
    /\ UNCHANGED <<denied, hostedZones, rrsets, pageSize, ctxZone, op, reqs, data, log>>

\* ------------------------------------------------------------ specification

\* The continuation returns and the caller may start its next operation.
Return ==
    /\ pc \in {"done", "aborted"}
    /\ pc' = "idle"
    /\ op' = NoOp
    /\ calls' = << >>
    /\ reqs' = NoReqs
    /\ data' = NoData
    /\ log' = << >>
    /\ UNCHANGED <<denied, hostedZones, rrsets, pageSize, ctxZone, req>>

\* new APICall(response, options): a context with no zone, its provider
\* operations replaced by no-ops when the user lacks the role needed
APICall ==
    /\ pc = "idle"
    /\ ctxZone' = NoZone
    /\ \E development \in BOOLEAN, need \in BOOLEAN, hasRole \in BOOLEAN :
          denied' = Gate(development, need, hasRole)
    /\ UNCHANGED <<hostedZones, rrsets, pageSize, op, pc, req, calls, reqs, data, log>>

\* The provider answers the outstanding request: with the zones, with a page
\* of record sets, with the result of a batch it has applied, or with an error.
Provider ==
    /\ pc = "waiting"
    /\ pc' = "answered"
    /\ \/ /\ req.api = "listHostedZones"
          /\ data' = [NoData EXCEPT !.HostedZones = hostedZones]
          /\ UNCHANGED rrsets
       \/ /\ req.api = "listResourceRecordSets"
          /\ data' = Answer
          /\ UNCHANGED rrsets
       \/ /\ req.api = "changeResourceRecordSets"
          /\ Applies(req.HostedZoneId, req.Changes)
          /\ data' = NoData
          /\ rrsets' = [rrsets EXCEPT ![req.HostedZoneId] = Applied(@, req.Changes)]
       \/ /\ data' = ErrData
          /\ UNCHANGED rrsets
    /\ UNCHANGED <<denied, hostedZones, pageSize, ctxZone, op, req, calls, reqs, log>>

\* The callback of the answered request runs.
Respond ==
    \/ listHostedZonesSuccess
    \/ listHostedZonesError
    \/ resourceRecordResponse
    \/ resourceRecordError
    \/ zoneRecordsPage
    \/ zoneRecordsError
    \/ updateRecordSuccess
    \/ updateRecordError

Next ==
    \/ currentZone
    \/ zoneNamed
    \/ hostZone
    \/ resourceRecord
    \/ zoneRecords
    \/ updateRecord
    \/ Provider
    \/ Respond
    \/ Return
    \/ APICall

Spec == Init /\ [][Next]_vars

\* One provider: both zones listed, pages of one record set.
FairInit ==
    /\ Init
    /\ hostedZones = <<ZoneSE, ZoneE>>
    /\ pageSize = 1

\* Every provider request is eventually answered and its callback is run.
FairSpec == FairInit /\ [][Next]_vars /\ WF_vars(Provider) /\ WF_vars(Respond)

\* ------------------------------------------------------ the matchers alone

\* The names and types the matchers are applied to.
MatchNames == {N_e, N_e_nodot, N_se, N_ae, N_ae_nodot, N_be, N_fse}

MatchTypes == {UndefType, "A", "CNAME", "a"}

\* A query (op.Name, op.Type) and a record or next cursor (data.NextRecordName,
\* data.NextRecordType), either field of which may be undefined.
MatchInit ==
    /\ \E n1 \in MatchNames, t1 \in MatchTypes :
          op = [NoOp EXCEPT !.name = "matchers", !.Name = n1, !.Type = t1]
    /\ \E n2 \in MatchNames \cup {UndefName}, t2 \in MatchTypes :
          data = [NoData EXCEPT !.NextRecordName = n2, !.NextRecordType = t2]
    /\ hostedZones = << >>
    /\ rrsets = [id \in ZoneIds |-> {}]
    /\ pageSize = 1
    /\ ctxZone = NoZone
    /\ pc = "idle"
    /\ req = NoReq
    /\ calls = << >>
    /\ reqs = NoReqs
    /\ log = << >>
    /\ denied = FALSE

\* The three matchers and the normalization, applied to the arguments.
Match ==
    /\ pc = "idle"
    /\ op.name = "matchers"
    /\ LET n1 == op.Name
           n2 == data.NextRecordName
           t1 == op.Type
           t2 == data.NextRecordType
       IN  calls' = << Call("matchers", NoZone, NoRecord,
                            [ once  |-> Normalize(n1),
                              twice |-> Normalize(Normalize(n1)),
                              name  |-> recordNameMatch(n1, n2),
                              nameN |-> recordNameMatch(Normalize(n1), Normalize(n2)),
                              type  |-> recordTypeMatch(t1, t2),
                              next  |-> nextRecordMatch([Name |-> n1, Type |-> t1],
                                                        [Name |-> n2, Type |-> t2]) ]) >>
    /\ pc' = "done"
    /\ UNCHANGED <<denied, hostedZones, rrsets, pageSize, ctxZone, op, req, reqs, data, log>>

MatchNext == Match

MatchSpec == MatchInit /\ [][MatchNext]_vars

\* ------------------------------------------------------------------ claims

\* The error a failure of operation o is reported with.
Failure(o, m) == Call(ErrK(o), NoZone, NoRecord, m)

\* The one-item request of resourceRecord has been answered with a page.
Answered ==
    /\ op.name = "resourceRecord"
    /\ pc = "done"
    /\ reqs.listResourceRecordSets = 1
    /\ ~ data.err

SameName(a, b) ==
    (IF a[Len(a)] = "." THEN a ELSE a \o <<".">>) = (IF b[Len(b)] = "." THEN b ELSE b \o <<".">>)

\* Record r is one the query of operation o asks for.
Asked(o, r) == SameName(r.Name, o.Name) /\ (o.Type = UndefType \/ r.Type = o.Type)

\* C1: when the first record of the one-item page matches the query in name
\* and type and the next cursor has a name and a type, the name equal to the
\* query's and the type matching it, resourceRecord reports the ambiguous
\* selection to the error continuation and the success continuation is not
\* invoked.
C1_AmbiguousFollowerFails ==
    ( /\ Answered
      /\ Len(data.ResourceRecordSets) > 0
      /\ Asked(op, data.ResourceRecordSets[1])
      /\ data.NextRecordName /= UndefName
      /\ data.NextRecordType /= UndefType
      /\ Asked(op, [Name |-> data.NextRecordName, Type |-> data.NextRecordType]) )
    => calls = <<Failure(op, "Aambiguous records selection")>>

C1_Witness ==
    /\ Answered
    /\ op.Type = UndefType
    /\ Len(data.ResourceRecordSets) > 0
    /\ data.ResourceRecordSets[1] = RR(N_ae, "A", 1)
    /\ data.NextRecordName = N_ae
    /\ data.NextRecordType = "CNAME"
    /\ calls = <<Failure(op, "Aambiguous records selection")>>

\* C2: when resourceRecord succeeds with record R, R has the query's name
\* (after normalization) and a type matching the query's, and R is the only
\* record set of the resolved zone that the query asks for.
C2_SuccessIsUnique ==
    \A i \in 1..Len(calls) :
        (op.name = "resourceRecord" /\ calls[i].k = "callback")
        => /\ Asked(op, calls[i].rec)
           /\ {r \in rrsets[ctxZone.Id] : Asked(op, r)} = {calls[i].rec}

C2_Witness ==
    /\ op.name = "resourceRecord"
    /\ op.Name = N_ae_nodot
    /\ op.Type = UndefType
    /\ Len(calls) = 1
    /\ calls[1].k = "callback"
    /\ calls[1].rec = RR(N_ae, "A", 1)
    /\ Cardinality(rrsets[ctxZone.Id]) > 1

\* C3: resourceRecord checks the name, then the type, then the ambiguity: an
\* empty page or a first record of another name is reported as record not
\* found whatever the type and the next cursor are, a type mismatch is
\* reported only when the name matches and the type does not, and ambiguity
\* only when both match.
C3_NameThenTypeThenAmbiguity ==
    Answered =>
        LET rs == data.ResourceRecordSets
            nameOk == Len(rs) > 0 /\ SameName(rs[1].Name, op.Name)
            typeOk == Len(rs) > 0 /\ (op.Type = UndefType \/ rs[1].Type = op.Type)
        IN  /\ Len(calls) = 1
            /\ ~ nameOk => calls[1] = Failure(op, "No such record with given name")
            /\ calls[1].msg = "No such record name with specified type" => nameOk /\ ~ typeOk
            /\ calls[1].msg = "Aambiguous records selection" => nameOk /\ typeOk

C3_Witness ==
    /\ Answered
    /\ op.Type = "CNAME"
    /\ Len(data.ResourceRecordSets) > 0
    /\ ~ SameName(data.ResourceRecordSets[1].Name, op.Name)
    /\ data.ResourceRecordSets[1].Type = "A"
    /\ data.NextRecordName = data.ResourceRecordSets[1].Name
    /\ calls = <<Failure(op, "No such record with given name")>>

\* C4: resourceRecord with a type that is defined and is none of the valid
\* types fails at once with the bad-type error: no request is issued, the
\* context's zone is not touched and the success continuation is not invoked.
C4_InvalidTypeFailsFast ==
    ( /\ op.name = "resourceRecord"
      /\ op.Type /= UndefType
      /\ toUpperCase(op.Type) \notin valid_types )
    => /\ pc = "done"
       /\ calls = <<Failure(op, "Bad record type supplied")>>
       /\ reqs = NoReqs
       /\ req = NoReq
       /\ ctxZone = op.zone0

C4_Witness ==
    /\ op.name = "resourceRecord"
    /\ op.Type = "BOGUS"
    /\ op.zone0 /= NoZone
    /\ calls = <<Failure(op, "Bad record type supplied")>>

\* C5: a valid type written in another letter case is handled as the
\* canonical type: an answered resourceRecord ends as it would have with the
\* type in upper case.
C5_TypeCaseInsensitive ==
    (Answered /\ TypeTest(op.Type))
    => calls = <<resourceRecordResult([op EXCEPT !.Type = toUpperCase(op.Type)], data)>>

\* Operation o is a zone resolution whose callback is the caller's.
ZoneOp(o) == o.name \in {"zoneNamed", "hostZone"}

\* Zone z is the first of the provider's listing that satisfies o's predicate.
FirstListed(o, z) ==
    \E i \in 1..Len(hostedZones) :
        /\ hostedZones[i] = z
        /\ predicate(o, z)
        /\ \A j \in 1..(i - 1) : ~ predicate(o, hostedZones[j])

\* The context held a zone satisfying o's predicate when o was called.
Hit(o) == o.zone0 /= NoZone /\ predicate(o, o.zone0)

\* C6 as claimed: every successful zoneNamed / hostZone, also on a context
\* whose zone was cached by an earlier call, returns the first zone of the
\* provider's listing that satisfies the predicate.
C6_FirstListedAlways ==
    \A i \in 1..Len(calls) :
        (ZoneOp(op) /\ calls[i].k = "callback") => FirstListed(op, calls[i].zone)

\* C6 as amended: a successful zoneNamed / hostZone that finds no zone
\* satisfying its predicate in the context returns the first zone of the
\* provider's listing that satisfies it; one that finds such a zone in the
\* context returns that zone, first of the listing or not.
C6_FirstListedOnMiss ==
    \A i \in 1..Len(calls) :
        (ZoneOp(op) /\ calls[i].k = "callback")
        => IF Hit(op)
           THEN calls[i].zone = op.zone0
           ELSE FirstListed(op, calls[i].zone)

C6_Witness ==
    /\ op.name = "hostZone"
    /\ op.predName = N_fse
    /\ hostedZones = <<ZoneSE, ZoneE>>
    /\ ~ Hit(op)
    /\ Len(calls) = 1
    /\ calls[1].k = "callback"
    /\ calls[1].zone = ZoneSE

\* C7: when the context holds a zone that satisfies the predicate, zoneWhere
\* invokes the callback with that zone, issues no listHostedZones request and
\* leaves the context's zone as it was.
C7_CacheHitNoLookup ==
    /\ (ZoneOp(op) /\ Hit(op))
       => /\ pc = "done"
          /\ calls = <<Call("callback", op.zone0, NoRecord, "")>>
          /\ reqs = NoReqs
          /\ ctxZone = op.zone0
    /\ (op.name = "resourceRecord" /\ ~ BadType(op.Type) /\ Hit(op))
       => /\ reqs.listHostedZones = 0
          /\ ctxZone = op.zone0
          /\ pc = "waiting" => req.HostedZoneId = op.zone0.Id

C7_Witness ==
    /\ op.name = "hostZone"
    /\ op.zone0 = ZoneE
    /\ hostedZones = <<ZoneSE, ZoneE>>
    /\ op.predName = N_fse
    /\ calls = <<Call("callback", ZoneE, NoRecord, "")>>
    /\ reqs = NoReqs

\* C8 as claimed: no operation hands the context's zone to a callback without
\* having evaluated its own predicate on that zone and found it true.
C8_AlwaysRevalidated ==
    \A i \in 1..Len(calls) :
        (op.name \in {"currentZone", "zoneNamed", "hostZone"} /\ calls[i].k = "callback")
        => op.predKind /= "none" /\ predicate(op, calls[i].zone)

\* C8 as amended: zoneWhere, zoneNamed, hostZone and resourceRecord hand the
\* context's zone to a callback only when their predicate holds of it;
\* currentZone evaluates no predicate and hands over whatever zone the
\* context holds, failing its assertion only when the context holds none.
C8_RevalidatedButCurrentZone ==
    /\ \A i \in 1..Len(calls) :
          (ZoneOp(op) /\ calls[i].k = "callback")
          => calls[i].zone = ctxZone /\ predicate(op, calls[i].zone)
    /\ (op.name = "resourceRecord" /\ req.api = "listResourceRecordSets")
       => req.HostedZoneId = ctxZone.Id /\ predicate(op, ctxZone)
    /\ op.name = "currentZone"
       => calls = IF op.zone0 = NoZone
                  THEN <<Call("throw", NoZone, NoRecord, "Not zone found in this context")>>
                  ELSE <<Call("callback", op.zone0, NoRecord, "")>>

C8_Witness ==
    /\ op.name = "zoneNamed"
    /\ op.predName = N_e_nodot
    /\ op.zone0 = ZoneE
    /\ calls = <<Call("callback", ZoneE, NoRecord, "")>>

\* C9: zoneRecords over an unchanging zone hands each record set that passes
\* the predicate to the record callback exactly once, in provider order, and
\* then invokes final_callback once.
C9_EachRecordOnce ==
    (op.name = "zoneRecords" /\ pc = "done" /\ ~ data.err)
    => /\ calls = <<Call("final_callback", NoZone, NoRecord, "")>>
       /\ log = Selected(op.filter, Listed(rrsets[op.zone.Id]))

\* C10: every enumeration by zoneRecords, its page requests being answered,
\* comes to final_callback or to the error handler.
C10_EnumerationEnds ==
    (op.name = "zoneRecords" /\ pc = "waiting") ~> (pc = "done")

\* ---------------------------------------------------------------- C11
\* C11: when the answer to a page request of zoneRecords, the first or a later
\* one, is an error, the step that handles it calls the error handler once with
\* the error's message and nothing else: no completion callback, no further
\* page request, no further record callback, and the record callbacks of the
\* earlier pages stay as they were; the operation then does nothing more.
C11_PageFailureEndsEnumeration ==
    [][ /\ (op.name = "zoneRecords" /\ pc = "answered" /\ data.err) =>
              /\ calls = << >>
              /\ calls' = <<Failure(op, "err.message")>>
              /\ log' = log
              /\ reqs' = reqs
              /\ req' = NoReq
              /\ pc' = "done"
        /\ (op.name = "zoneRecords" /\ pc = "done" /\ data.err) =>
              pc' = "idle" ]_vars

\* A later page failed after records of the first page had been delivered.
C11_Witness ==
    /\ op.name = "zoneRecords"
    /\ pc = "done"
    /\ data.err
    /\ reqs.listResourceRecordSets = 2
    /\ Len(log) >= 1
    /\ calls = <<Failure(op, "err.message")>>

\* ---------------------------------------------------------------- C12
\* C12: an invocation of updateRecord calls changeResourceRecordSets exactly
\* once and no other provider operation; the request names the given zone's Id
\* and carries exactly the two changes DELETE old, CREATE new in that order;
\* when the provider rejects the batch the error handler receives the
\* provider's message, the success callback is not called and no second batch
\* is sent; when it accepts, only the success callback is called.
C12_OneAtomicBatch ==
    op.name = "updateRecord" =>
        /\ reqs = [NoReqs EXCEPT !.changeResourceRecordSets = 1]
        /\ pc \in {"waiting", "answered"} =>
              /\ req.api = "changeResourceRecordSets"
              /\ req.HostedZoneId = op.zone.Id
              /\ Len(req.Changes) = 2
              /\ req.Changes[1] = [Action |-> "DELETE", ResourceRecordSet |-> op.old]
              /\ req.Changes[2] = [Action |-> "CREATE", ResourceRecordSet |-> op.new]
        /\ pc \in {"idle", "waiting", "answered"} => calls = << >>
        /\ (pc = "done" /\ data.err) => calls = <<Failure(op, "err.message")>>
        /\ (pc = "done" /\ ~ data.err) =>
              calls = <<Call("callback", NoZone, NoRecord, "data")>>

\* The provider rejected the one batch of an updateRecord and the error
\* handler has been called.
C12_Witness ==
    /\ op.name = "updateRecord"
    /\ pc = "done"
    /\ data.err
    /\ reqs.changeResourceRecordSets = 1
    /\ calls = <<Failure(op, "err.message")>>

\* ---------------------------------------------------------------- C13
\* C13: every failure of an operation is reported to the error handler the
\* caller supplied, and to the context's defaultErrorHandler only when the
\* caller supplied none; a failed zone lookup inside resourceRecord is such a
\* failure.
C13_FailuresReachGivenHandler ==
    \A i \in 1..Len(calls) :
        /\ calls[i].k = "defaultErrorHandler" => ~ op.errback
        /\ calls[i].k = "errback" => op.errback

\* ---------------------------------------------------------------- C14
\* The continuation kinds through which an operation resolves: its success
\* continuation (final_callback for zoneRecords) or an error handler.
Success(o) == IF o.name = "zoneRecords" THEN "final_callback" ELSE "callback"

Resolving(o) == {Success(o), "errback", "defaultErrorHandler"}

\* C14: zoneNamed, hostZone (the two forms of zoneWhere), resourceRecord,
\* updateRecord and zoneRecords resolve through exactly one continuation: no
\* continuation is called while a request of the operation is unanswered or
\* its answer not yet handled, and once every request has been answered and
\* handled exactly one continuation, the success continuation or an error
\* handler, has been called exactly once; never both, never neither, never
\* twice.
C14_ExactlyOneContinuation ==
    op.name \in {"zoneNamed", "hostZone", "resourceRecord", "updateRecord", "zoneRecords"} =>
        /\ pc \in {"waiting", "answered"} => calls = << >>
        /\ pc = "done" =>
              /\ Len(calls) = 1
              /\ calls[1].k \in Resolving(op)
        /\ Cardinality({i \in 1..Len(calls) : calls[i].k \in Resolving(op)}) <= 1

\* A resourceRecord whose two requests were both answered has resolved through
\* the caller's error handler alone.
C14_Witness ==
    /\ op.name = "resourceRecord"
    /\ pc = "done"
    /\ reqs.listHostedZones = 1
    /\ reqs.listResourceRecordSets = 1
    /\ Len(calls) = 1
    /\ calls[1].k = "errback"

\* ---------------------------------------------------------------- C15
\* This step sends a request to the provider.
IssueStep == pc' = "waiting" /\ (pc /= "waiting" \/ req' /= req)

\* C15: a request is sent only when none is outstanding: either as the first
\* request of an operation, or from the handler of the answer to the request
\* before it. resourceRecord sends its listResourceRecordSets at once only on a
\* cache hit, with no listHostedZones sent, and otherwise from the handler of
\* the successful listHostedZones answer, for a zone of that answer; zoneRecords
\* sends the request for the next page only from the handler of the page
\* before, a truncated page, in the step that has run the record callbacks of
\* that page.
C15_OneRequestAtATime ==
    [][ IssueStep =>
          \/ /\ pc = "idle"
             /\ req = NoReq
             /\ (op'.name = "resourceRecord" /\ req'.api = "listResourceRecordSets") =>
                   /\ Hit(op')
                   /\ reqs'.listHostedZones = 0
                   /\ req'.HostedZoneId = op'.zone0.Id
          \/ /\ pc = "answered"
             /\ ~ data.err
             /\ op' = op
             /\ \/ /\ op.name = "resourceRecord"
                   /\ req.api = "listHostedZones"
                   /\ req'.api = "listResourceRecordSets"
                   /\ \E i \in 1..Len(data.HostedZones) :
                         data.HostedZones[i].Id = req'.HostedZoneId
                \/ /\ op.name = "zoneRecords"
                   /\ req.api = "listResourceRecordSets"
                   /\ req'.api = "listResourceRecordSets"
                   /\ data.IsTruncated
                   /\ log' = Deliver(log, Selected(op.filter, data.ResourceRecordSets)) ]_vars

\* zoneRecords waits for its second page, the records of the first delivered.
C15_Witness ==
    /\ op.name = "zoneRecords"
    /\ pc = "waiting"
    /\ reqs.listResourceRecordSets = 2
    /\ Len(log) = 1

\* ---------------------------------------------------------------- C16
\* C16: over the bounded names and types, appending the trailing dot is
\* idempotent and leaves a name ending with a dot; recordNameMatch(a, b) holds
\* exactly when a and b are equal once each has its trailing dot, and has the
\* same value on the normalized arguments; recordTypeMatch holds when either
\* type is undefined and otherwise exactly when the types are equal;
\* nextRecordMatch is false whenever the next record's Name or Type is
\* undefined.
C16_MatcherLaws ==
    (op.name = "matchers" /\ pc = "done") =>
        LET n1 == op.Name
            n2 == data.NextRecordName
            t1 == op.Type
            t2 == data.NextRecordType
            r  == calls[1].msg
        IN  /\ r.twice = r.once
            /\ r.once[Len(r.once)] = "."
            /\ r.once \in {n1, n1 \o <<".">>}
            /\ n2 /= UndefName =>
                  /\ r.name <=> SameName(n1, n2)
                  /\ r.name <=> r.nameN
            /\ (t1 = UndefType \/ t2 = UndefType) => r.type
            /\ (t1 /= UndefType /\ t2 /= UndefType) => (r.type <=> t1 = t2)
            /\ (n2 = UndefName \/ t2 = UndefType) => ~ r.next

\* A name without its trailing dot matched the same name with it, under an
\* undefined type of the next record.
C16_Witness ==
    /\ op.name = "matchers"
    /\ pc = "done"
    /\ op.Name = N_ae_nodot
    /\ data.NextRecordName = N_ae
    /\ op.Type = "A"
    /\ data.NextRecordType = UndefType
    /\ calls[1].msg.name
    /\ calls[1].msg.type
    /\ ~ calls[1].msg.next

\* ---------------------------------------------------------------- C17
\* Operation o has entered zoneWhere: zoneNamed and hostZone always,
\* resourceRecord once the supplied type has passed validation.
InZoneWhere(o) ==
    \/ ZoneOp(o)
    \/ o.name = "resourceRecord" /\ (o.Type = UndefType \/ TypeTest(o.Type))

Satisfiable(o) == \E i \in 1..Len(hostedZones) : predicate(o, hostedZones[i])

\* C17: a zoneWhere entered on a context with no zone, or with a zone failing
\* the predicate, calls listHostedZones exactly once. Once the listing has been
\* answered: if a listed zone satisfies the predicate, the context holds a
\* listed zone satisfying it and that zone is the one handed to the callback
\* (for resourceRecord: the one whose record sets are requested); if none
\* does, the operation has failed with 'Zone not found' and nothing else. After
\* every successful zoneNamed / hostZone, cache hit or not, the context's zone
\* is the zone delivered and satisfies the call's predicate.
C17_MissListsOnceAndStores ==
    /\ (InZoneWhere(op) /\ ~ Hit(op)) =>
          /\ reqs.listHostedZones = 1
          /\ (ZoneOp(op) /\ pc = "done" /\ ~ data.err) =>
                IF Satisfiable(op)
                THEN calls = <<Call("callback", ctxZone, NoRecord, "")>>
                ELSE /\ Len(calls) = 1
                     /\ calls[1].k \in {"errback", "defaultErrorHandler"}
                     /\ calls[1].msg = "Zone not found"
          /\ (op.name = "resourceRecord" /\ reqs.listResourceRecordSets = 1) =>
                /\ Satisfiable(op)
                /\ pc = "waiting" => req.HostedZoneId = ctxZone.Id
          /\ (op.name = "resourceRecord" /\ reqs.listResourceRecordSets = 0
                /\ pc = "done" /\ ~ data.err) =>
                /\ ~ Satisfiable(op)
                /\ Len(calls) = 1
                /\ calls[1].k \in {"errback", "defaultErrorHandler"}
                /\ calls[1].msg = "Zone not found"
    /\ \A i \in 1..Len(calls) :
          (InZoneWhere(op) /\ calls[i].k = "callback" /\ ZoneOp(op)) =>
              /\ calls[i].zone = ctxZone
              /\ predicate(op, ctxZone)
    /\ (op.name = "resourceRecord" /\ reqs.listResourceRecordSets = 1) =>
          /\ predicate(op, ctxZone)
          /\ ~ Hit(op) => \E i \in 1..Len(hostedZones) : hostedZones[i] = ctxZone

\* A context holding zone s.e. was asked for the zone of a.e.: the stale zone
\* has been replaced by the listed zone e., which the callback received.
C17_Witness ==
    /\ op.name = "hostZone"
    /\ op.predName = N_ae
    /\ op.zone0 = ZoneSE
    /\ pc = "done"
    /\ reqs.listHostedZones = 1
    /\ ctxZone = ZoneE
    /\ calls = <<Call("callback", ZoneE, NoRecord, "")>>

\* ---------------------------------------------------------------- C18
\* A zone error handler call: zone not found, or the failed listing's response.
ZoneFailure(c) ==
    /\ c.k \in {"errback", "defaultErrorHandler"}
    /\ c.msg \in {"Zone not found", "r"}

\* C18: when zoneWhere fails, because no listed zone satisfies the predicate
\* or because listHostedZones answers with an error, the context's zone is the
\* one it held when the operation was called: a cached zone that failed the
\* predicate is neither cleared nor replaced.
C18_FailureKeepsCache ==
    \A i \in 1..Len(calls) :
        (InZoneWhere(op) /\ ZoneFailure(calls[i])) => ctxZone = op.zone0

\* A context holding zone e. was asked for zone s.e.; the lookup failed and
\* the context still holds e.
C18_Witness ==
    /\ op.name = "zoneNamed"
    /\ op.predName = N_se
    /\ op.zone0 = ZoneE
    /\ pc = "done"
    /\ Len(calls) = 1
    /\ ZoneFailure(calls[1])
    /\ ctxZone = ZoneE

\* ---------------------------------------------------------------- C19
Dotted(n) == IF n[Len(n)] = "." THEN n ELSE n \o <<".">>

\* Host h, with its trailing dot, ends with '.' followed by the name of zone z.
Under(h, z) ==
    \E k \in 1..Len(Dotted(h)) :
        SubSeq(Dotted(h), k, Len(Dotted(h))) = <<".">> \o z.Name

ListedAncestor(h) == \E i \in 1..Len(hostedZones) : Under(h, hostedZones[i])

\* C19: the zone hostZone hands to its callback, and the zone whose record
\* sets resourceRecord requests, is one whose name preceded by '.' ends the
\* dotted host, so it is never the zone whose own name the host is; a
\* resourceRecord for a name no listed zone is such an ancestor of, a listed
\* zone's own name included, requests no record set, and once the listing has
\* been answered it has failed with 'Zone not found'.
C19_StrictAncestorOnly ==
    /\ \A i \in 1..Len(calls) :
          (op.name = "hostZone" /\ calls[i].k = "callback") =>
              /\ Under(op.predName, calls[i].zone)
              /\ calls[i].zone.Name /= Dotted(op.predName)
    /\ (op.name = "resourceRecord" /\ pc \in {"waiting", "answered"}
          /\ req.api = "listResourceRecordSets") =>
          \E z \in {ZoneE, ZoneSE} :
              /\ z.Id = req.HostedZoneId
              /\ Under(op.Name, z)
              /\ z.Name /= Dotted(op.Name)
    /\ (op.name = "resourceRecord" /\ ~ ListedAncestor(op.Name)) =>
          /\ reqs.listResourceRecordSets = 0
          /\ (InZoneWhere(op) /\ pc = "done" /\ ~ data.err) =>
                /\ Len(calls) = 1
                /\ calls[1].k \in {"errback", "defaultErrorHandler"}
                /\ calls[1].msg = "Zone not found"

\* resourceRecord for e., the apex of the listed zone e., has failed with
\* 'Zone not found'.
C19_Witness ==
    /\ op.name = "resourceRecord"
    /\ op.Name = N_e
    /\ \E i \in 1..Len(hostedZones) : hostedZones[i] = ZoneE
    /\ pc = "done"
    /\ reqs.listHostedZones = 1
    /\ Len(calls) = 1
    /\ calls[1].msg = "Zone not found"

\* ---------------------------------------------------------------- C20
\* C20: on a call object built outside development mode for a user lacking the
\* role the options ask for, no operation run on the object makes a
\* listHostedZones, listResourceRecordSets or changeResourceRecordSets request
\* reach the provider: no request is ever outstanding or answered, no answer
\* of the provider has been received, and the context never holds a zone.
C20_DeniedReachesNoProvider ==
    denied =>
        /\ pc \notin {"waiting", "answered"}
        /\ req = NoReq
        /\ data = NoData
        /\ ctxZone = NoZone
        /\ \A i \in 1..Len(calls) : calls[i].k \notin {"callback", "final_callback"}

\* updateRecord has called changeResourceRecordSets on a denied call object,
\* and nothing was sent.
C20_Witness ==
    /\ denied
    /\ op.name = "updateRecord"
    /\ pc = "aborted"
    /\ reqs.changeResourceRecordSets = 1
    /\ req = NoReq

=============================================================================
